---------------------------- MODULE Spec2Model ----------------------------
(***************************************************************************)
(* Authentication and session-security state machine of src/app.py:        *)
(* credential records (table candidato), password-reset tokens (table      *)
(* recuperacao_senha), the per-client Flask session, the login_required    *)
(* gate and the handlers behind it.                                        *)
(*                                                                         *)
(* Time is a clock in seconds.  Every duration of the program (15 minutes  *)
(* of lockout, 60 minutes of token life, 120 minutes of session life) is   *)
(* a multiple of 15 minutes, so the clock advances in steps of 15 minutes: *)
(* requests happen before, exactly at, and after every deadline.  Where    *)
(* the program rounds a duration to minutes (the minutes a locked account  *)
(* is told to wait) the clock may also stop a few seconds before a step.   *)
(*                                                                         *)
(* A handler that reads a row and later writes it (login, resetar_senha)   *)
(* is two steps, split at the SELECT: PostgreSQL's READ COMMITTED takes no *)
(* row lock for a plain SELECT, so other requests run between the two.     *)
(* The UPDATEs and the commit that follow are one step (a row lock is held *)
(* from the UPDATE to the commit).                                         *)
(*                                                                         *)
(* The handlers fall into groups that share little state: login and        *)
(* lockout, password reset, registration, and the session gate with the    *)
(* pages that read the session.  Each specification runs                   *)
(* one group, with its own time horizon; the specifications named ...Conc  *)
(* run two clients whose requests interleave, the others one client, whose *)
(* requests follow one another.  SpecConta and SpecRegistro run handlers   *)
(* of several groups on the same records; SpecSenha and SpecHash call the  *)
(* password functions on their own.                                        *)
(*                                                                         *)
(* Not modelled: the flask_limiter rate limits (a limited request never    *)
(* reaches its handler, which is the same as the request not being made),  *)
(* templates, and log files.                                               *)
(***************************************************************************)
EXTENDS Integers, Sequences, FiniteSets, TLC

VARIABLES
    now,                \* datetime.now() / CURRENT_TIMESTAMP, in seconds
    candidato,          \* table candidato: sequence of rows, id_candidato = index
    recuperacao_senha,  \* table recuperacao_senha: sequence of rows
    resultados_questionario, \* table resultados_questionario: sequence of rows
    session,            \* Flask session of each client
    pc,                 \* position of each client's request in flight
    local,              \* local variables of each client's request in flight
    csrfSeq,            \* number of values secrets.token_hex has produced
    last,               \* the most recent handler step: who, what, outcome
    falhas,             \* history: failed logins completed per record since its last success
    redencoes           \* history: password changes committed per reset token

vars == <<now, candidato, recuperacao_senha, resultados_questionario, session,
          pc, local, csrfSeq, last, falhas, redencoes>>

---------------------------------------------------------------------------
(* Program constants *)

LOCKOUT_THRESHOLD == 5
LOCKOUT_MINUTES == 15
TOKEN_MINUTES == 60
SESSION_MINUTES == 120
PERMANENT_SESSION_LIFETIME == 120

(* timedelta(minutes=m).total_seconds() *)
Seconds(m) == m * 60
MIN_PASSWORD_LEN == 8
MIN_AGE == 15

(* SQL NULL, a key absent from the session dict, a form field not sent *)
NULL == -1

---------------------------------------------------------------------------
(* Bounds of the model *)

MaxTicksLogin == 2
MaxTicksLoginConc == 1
MaxTicksReset == 5
MaxTicksSessao == 9
MaxTentativas == 6
MaxTokens == 1
MaxCsrf == 4
MaxContas == 3
MaxResultados == 1
SecondsBeforeStep == 30

TickMinutes == LOCKOUT_MINUTES

Clients == {"c1", "c2"}
OneClient == {"c1"}

---------------------------------------------------------------------------
(* Passwords are sequences of characters *)

Upper == {"A","B","C","D","E","F","G","H","I","J","K","L","M",
          "N","O","P","Q","R","S","T","U","V","W","X","Y","Z"}
Lower == {"a","b","c","d","e","f","g","h","i","j","k","l","m",
          "n","o","p","q","r","s","t","u","v","w","x","y","z"}
Digit == {"0","1","2","3","4","5","6","7","8","9"}
Special == {"!","@","#","$","%","^","&","*","(",")",",",".","?","\"",
            ":","{","}","|","<",">"}

SenhaA == <<"S","e","n","h","a","@","1","2">>
SenhaB == <<"O","u","t","r","a","#","4","5">>
SenhaFraca == <<"a","b","c","1","2","3","4","5">>
SenhaVazia == <<>>

HasChar(senha, class) == \E i \in 1..Len(senha) : senha[i] \in class

validar_senha_forte_DigitFirst(senha) ==
    IF Len(senha) < MIN_PASSWORD_LEN THEN <<FALSE, "minimo 8 caracteres">>
    ELSE IF ~HasChar(senha, Digit) THEN <<FALSE, "numero">>
    ELSE IF ~HasChar(senha, Upper) THEN <<FALSE, "letra maiuscula">>
    ELSE IF ~HasChar(senha, Lower) THEN <<FALSE, "letra minuscula">>
    ELSE IF ~HasChar(senha, Special) THEN <<FALSE, "caractere especial">>
    ELSE <<TRUE, "Senha valida">>

validar_senha_forte(senha) ==
    IF Len(senha) < MIN_PASSWORD_LEN THEN <<FALSE, "minimo 8 caracteres">>
    ELSE IF ~HasChar(senha, Upper) THEN <<FALSE, "letra maiuscula">>
    ELSE IF ~HasChar(senha, Lower) THEN <<FALSE, "letra minuscula">>
    ELSE IF ~HasChar(senha, Digit) THEN <<FALSE, "numero">>
    ELSE IF ~HasChar(senha, Special) THEN <<FALSE, "caractere especial">>
    ELSE <<TRUE, "Senha valida">>

(* bcrypt: the digest is a function of the salt and of the first 72 bytes  *)
(* of the password, and the salt is stored with it; checkpw hashes again   *)
(* with the stored salt.  A bcrypt package from 5.0 on raises ValueError   *)
(* for a longer password instead of cutting it: the steps that call        *)
(* hash_senha and verificar_senha on such a password take either course.   *)
Salts == {1, 2}

BCRYPT_MAX_BYTES == 72

Truncar(senha) ==
    IF Len(senha) > BCRYPT_MAX_BYTES THEN SubSeq(senha, 1, BCRYPT_MAX_BYTES) ELSE senha

bcrypt_hashpw(senha, salt) == [salt |-> salt, digest |-> <<salt, Truncar(senha)>>]

hash_senha(senha, salt) == bcrypt_hashpw(senha, salt)

(* A stored value that is not a bcrypt hash *)
HashMalformado == [salt |-> 0, digest |-> << >>]

verificar_senha_AlwaysTrue(senha, hash_armazenado) == TRUE

(* checkpw raises on a salt it cannot read; "except: return False" *)
verificar_senha(senha, hash_armazenado) ==
    IF hash_armazenado.salt \notin Salts THEN FALSE
    ELSE bcrypt_hashpw(senha, hash_armazenado.salt) = hash_armazenado

---------------------------------------------------------------------------
(* Emails *)

EmailA == "a@x.com"
EmailB == "b@x.com"
EmailC == "c@x.com"

(* EmailA written with a capital: another string, the same mailbox *)
EmailUpper == "A@x.com"

(* sanitizar_input strips surrounding blanks (and tags) *)
sanitizar_input(texto) ==
    CASE texto = " a@x.com " -> EmailA
      [] texto = "  " -> ""
      [] OTHER -> texto

EmailTemp == "t@yopmail.com"

validar_email(email) == email \in {EmailA, EmailB, EmailC, EmailUpper, EmailTemp}

(* email.split('@')[-1].lower() *)
Dominio(email) ==
    CASE email = EmailTemp -> "yopmail.com"
      [] email \in {EmailA, EmailB, EmailC, EmailUpper} -> "x.com"
      [] OTHER -> email

dominios_temporarios ==
    {"temp-mail.org", "guerrillamail.com", "yopmail.com", "mailinator.com",
     "10minutemail.com", "throwawaymail.com", "tempmail.com", "fakeinbox.com",
     "maildrop.cc"}

validar_email_seguro(email) ==
    IF ~validar_email(email) THEN <<FALSE, "Formato de email invalido">>
    ELSE IF Dominio(email) \in dominios_temporarios
    THEN <<FALSE, "Emails temporarios nao sao permitidos">>
    ELSE <<TRUE, "Email valido">>

(* Passwords for validar_senha_forte: every choice and order of one        *)
(* character of each class, filled with a character of no class up to the  *)
(* lengths around the minimum                                              *)
Representantes == {"A", "a", "1", "!"}
SemClasse == "_"
Ordens ==
    {o \in UNION {[1..n -> Representantes] : n \in 0..4} :
        \A i, j \in 1..Len(o) : i # j => o[i] # o[j]}
Comprimentos == {MIN_PASSWORD_LEN - 1, MIN_PASSWORD_LEN, MIN_PASSWORD_LEN + 1}
SenhaDe(o, n) == [i \in 1..n |-> IF i <= Len(o) THEN o[i] ELSE SemClasse]
SenhasTeste ==
    {SenhaDe(o, n) : o \in Ordens, n \in Comprimentos} \cup {SenhaFraca, SenhaA}

(* Passwords for hash_senha and verificar_senha: short ones, and two that  *)
(* differ only after their 72nd byte                                       *)
SenhaLonga(fim) == [i \in 1..(BCRYPT_MAX_BYTES + 1) |->
                       IF i <= BCRYPT_MAX_BYTES THEN "a" ELSE fim]
HashSenhas == {SenhaA, SenhaB, SenhaFraca, SenhaVazia, SenhaLonga("X"), SenhaLonga("Y")}

LoginEmails == {EmailA, EmailB, EmailC, " a@x.com ", "  "}
LoginSenhas == {SenhaA, SenhaB, SenhaVazia}
RecuperarEmails == {EmailA, EmailC, "invalido"}
ResetSenhas == {SenhaB, SenhaFraca}
CadastroEmails == {EmailA, EmailC, EmailTemp, "invalido"}

---------------------------------------------------------------------------
(* Dates of birth *)

(* date.today() *)
Hoje == [ano |-> 2026, mes |-> 11, dia |-> 5]

DatasNascimento == {"15/03/2000", "2000-03-15", "15/12/2011", "31/02/2000", "abc"}

converter_data_br_para_iso(data_br) ==
    CASE data_br = "15/03/2000" -> "2000-03-15"
      [] data_br = "15/12/2011" -> "2011-12-15"
      [] data_br = "31/02/2000" -> "2000-02-31"
      [] OTHER -> data_br

(* datetime.strptime(date_string, '%Y-%m-%d') succeeds *)
validate_date(date_string) == date_string \in {"2000-03-15", "2011-12-15"}

strptime(date_string) ==
    CASE date_string = "2000-03-15" -> [ano |-> 2000, mes |-> 3, dia |-> 15]
      [] date_string = "2011-12-15" -> [ano |-> 2011, mes |-> 12, dia |-> 15]

calcular_idade(data_nascimento_str) ==
    IF ~validate_date(data_nascimento_str) THEN 0
    ELSE LET data_nascimento == strptime(data_nascimento_str)
             idade == Hoje.ano - data_nascimento.ano
         IN IF \/ Hoje.mes < data_nascimento.mes
               \/ Hoje.mes = data_nascimento.mes /\ Hoje.dia < data_nascimento.dia
            THEN idade - 1 ELSE idade

---------------------------------------------------------------------------
(* Session *)

EmptySession ==
    [usuario_id |-> NULL, login_time |-> NULL, csrf_token |-> NULL, logged_in |-> FALSE,
     permanent |-> FALSE, signed_at |-> NULL]

(* The session a request sees: Flask reads the signed cookie and takes it   *)
(* as empty when its signature is older than PERMANENT_SESSION_LIFETIME.    *)
open_session(s, t) ==
    IF s.signed_at # NULL /\ t - s.signed_at > Seconds(PERMANENT_SESSION_LIFETIME)
    THEN EmptySession ELSE s

(* The cookie a response leaves: a permanent session (session.permanent =   *)
(* True at login and cadastro) is signed again by every response.  The age *)
(* of the cookie of a session that is not permanent, which holds no user,  *)
(* is not followed.                                                        *)
save_session(s, t) ==
    IF s.permanent THEN [s EXCEPT !.signed_at = t] ELSE [s EXCEPT !.signed_at = NULL]

(* @app.before_request *)
gerar_csrf_token(s, seq) ==
    IF s.csrf_token = NULL THEN [s EXCEPT !.csrf_token = seq + 1] ELSE s

SeqAfterRequestStart(c) ==
    IF open_session(session[c], now).csrf_token = NULL THEN csrfSeq + 1 ELSE csrfSeq

(* The session of a request when its handler starts *)
SessionAtStart(c) == gerar_csrf_token(open_session(session[c], now), csrfSeq)

CanStart(c) ==
    /\ pc[c] = "idle"
    /\ SeqAfterRequestStart(c) <= MaxCsrf

NoLocal ==
    [email |-> "", senha |-> SenhaVazia, confirmar_senha |-> SenhaVazia,
     cand |-> NULL, token |-> NULL, id_candidato |-> NULL, lido_em |-> NULL,
     senha_valida |-> <<FALSE, "">>, hashes |-> << >>, confere |-> << >>]

(* arg: the csrf_token field of a POST behind the gate, the token of a     *)
(* reset request, the minutes or the attempt number in the message of a    *)
(* refused login, the tentativas_login a successful login read, the email  *)
(* of a POST to recuperar_senha or of a login that found no record         *)
(* at: the statement at which an exception ended the handler                *)
(* body: the kind of body of a POST to /api/salvar-resultado               *)
Step(c, op, outcome, arg) ==
    [c |-> c, op |-> op, outcome |-> outcome, arg |-> arg, at |-> "return",
     body |-> "none"]

(* The session login() and cadastro() build on success: session.permanent, *)
(* usuario_id, logged_in, login_time and a csrf_token from                 *)
(* secrets.token_hex, a value never produced before                        *)
NovaSessao_KeepToken(s, id, t, seq) ==
    [usuario_id |-> id, login_time |-> t, csrf_token |-> s.csrf_token,
     logged_in |-> TRUE, permanent |-> TRUE, signed_at |-> t]

NovaSessao(s, id, t, seq) ==
    [usuario_id |-> id, login_time |-> t, csrf_token |-> seq + 1,
     logged_in |-> TRUE, permanent |-> TRUE, signed_at |-> t]

(* A psycopg2 connection (autocommit off): what the other transactions see *)
(* of what a transaction has written                                       *)
Visible_Autocommit(committed, written, commit_done) == written

Visible(committed, written, commit_done) ==
    IF commit_done THEN written ELSE committed

---------------------------------------------------------------------------
(* Initial states: a database holding registered accounts, nobody logged in *)

ContaA == [email |-> EmailA, senha |-> hash_senha(SenhaA, 1),
           tentativas_login |-> 0, bloqueado_ate |-> NULL, ativo |-> TRUE]
ContaB == [email |-> EmailB, senha |-> hash_senha(SenhaB, 2),
           tentativas_login |-> 0, bloqueado_ate |-> NULL, ativo |-> TRUE]

InitWith(contas) ==
    /\ now = 0
    /\ candidato = contas
    /\ recuperacao_senha = << >>
    /\ resultados_questionario = << >>
    /\ session = [c \in Clients |-> EmptySession]
    /\ pc = [c \in Clients |-> "idle"]
    /\ local = [c \in Clients |-> NoLocal]
    /\ csrfSeq = 0
    /\ last = Step("c1", "none", "none", NULL)
    /\ falhas = [i \in 1..Len(contas) |-> 0]
    /\ redencoes = << >>

(* An account that excluir_usuario() has deactivated *)
ContaInativa == [ContaB EXCEPT !.ativo = FALSE]

(* An account locked by its 5th failed login in a row, made at time 0 *)
ContaBloqueada ==
    [ContaA EXCEPT !.tentativas_login = LOCKOUT_THRESHOLD,
                   !.bloqueado_ate = Seconds(LOCKOUT_MINUTES)]

Init == InitWith(<<ContaA>>)
InitConta ==
    /\ now = 0
    /\ candidato = <<ContaBloqueada, ContaB>>
    /\ recuperacao_senha = << >>
    /\ resultados_questionario = << >>
    /\ session = [c \in Clients |-> EmptySession]
    /\ pc = [c \in Clients |-> "idle"]
    /\ local = [c \in Clients |-> NoLocal]
    /\ csrfSeq = 0
    /\ last = Step("c1", "none", "none", NULL)
    /\ falhas = <<LOCKOUT_THRESHOLD, 0>>
    /\ redencoes = << >>
InitLogin == InitWith(<<ContaA, ContaInativa>>)
Init2 == InitWith(<<ContaA, ContaB>>)

Tick(maxTicks) ==
    /\ now' = ((now \div Seconds(TickMinutes)) + 1) * Seconds(TickMinutes)
    /\ now' <= maxTicks * Seconds(TickMinutes)
    /\ UNCHANGED resultados_questionario
    /\ UNCHANGED <<candidato, recuperacao_senha, session, pc, local, csrfSeq,
                   last, falhas, redencoes>>

(* The clock stops SecondsBeforeStep seconds before its next step *)
TickSeconds(maxTicks) ==
    /\ now % Seconds(TickMinutes) = 0
    /\ now + Seconds(TickMinutes) <= maxTicks * Seconds(TickMinutes)
    /\ now' = now + Seconds(TickMinutes) - SecondsBeforeStep
    /\ UNCHANGED resultados_questionario
    /\ UNCHANGED <<candidato, recuperacao_senha, session, pc, local, csrfSeq,
                   last, falhas, redencoes>>

---------------------------------------------------------------------------
(* /login *)

(* The rows the SELECT of login() matches *)
LoginRows_IgnoreAtivo(email) ==
    {i \in 1..Len(candidato) : candidato[i].email = email}

LoginRows(email) ==
    {i \in 1..Len(candidato) : candidato[i].email = email /\ candidato[i].ativo}

Snapshot(i) ==
    [id_candidato |-> i,
     email_candidato |-> candidato[i].email,
     senha |-> candidato[i].senha,
     tentativas_login |-> candidato[i].tentativas_login,
     bloqueado_ate |-> candidato[i].bloqueado_ate]

(* login(), from the start to cursor.fetchone() *)
LoginSelect(c, method, email_in, senha) ==
    /\ CanStart(c)
    /\ csrfSeq' = SeqAfterRequestStart(c)
    /\ session' = [session EXCEPT ![c] = save_session(SessionAtStart(c), now)]
    /\ UNCHANGED resultados_questionario
    /\ UNCHANGED <<now, candidato, recuperacao_senha, falhas, redencoes>>
    /\ LET email == sanitizar_input(email_in) IN
       IF SessionAtStart(c).usuario_id # NULL THEN
           /\ last' = Step(c, "login", "redirect_index", NULL)
           /\ UNCHANGED <<pc, local>>
       ELSE IF method = "GET" THEN
           /\ last' = Step(c, "login", "form", NULL)
           /\ UNCHANGED <<pc, local>>
       ELSE IF email = "" \/ senha = SenhaVazia THEN
           /\ last' = Step(c, "login", "campos_vazios", NULL)
           /\ UNCHANGED <<pc, local>>
       ELSE IF LoginRows(email) = {} THEN
           /\ last' = Step(c, "login", "nao_cadastrado", email)
           /\ UNCHANGED <<pc, local>>
       ELSE
           \E i \in LoginRows(email) :
               /\ pc' = [pc EXCEPT ![c] = "login_read"]
               /\ local' = [local EXCEPT ![c] =
                              [NoLocal EXCEPT !.email = email, !.senha = senha,
                                              !.cand = Snapshot(i)]]
               /\ last' = Step(c, "login", "select", NULL)

(* "Verificar se usuário está bloqueado" *)
Bloqueado_Permanent(bloqueado_ate, t) == bloqueado_ate # NULL

Bloqueado_Reversed(bloqueado_ate, t) == bloqueado_ate # NULL /\ bloqueado_ate < t

Bloqueado(bloqueado_ate, t) == bloqueado_ate # NULL /\ bloqueado_ate > t

(* int(tempo_restante.total_seconds() / 60) *)
MinutosRestantes(bloqueado_ate, t) == (bloqueado_ate - t) \div 60

(* "SET tentativas_login = 0, bloqueado_ate = NULL" *)
ResetarTentativas_KeepCounter(row) == [row EXCEPT !.bloqueado_ate = NULL]

ResetarTentativas(row) == [row EXCEPT !.tentativas_login = 0, !.bloqueado_ate = NULL]

(* (candidato['tentativas_login'] or 0) *)
OrZero(x) == IF x = NULL \/ x = 0 THEN 0 ELSE x

(* "if novas_tentativas >= 5" *)
LimiteAtingido_OnlyAtThreshold(novas_tentativas) == novas_tentativas = LOCKOUT_THRESHOLD

LimiteAtingido_OffByOne(novas_tentativas) == novas_tentativas > LOCKOUT_THRESHOLD

LimiteAtingido(novas_tentativas) == novas_tentativas >= LOCKOUT_THRESHOLD

(* login(), from the lock check to the response *)
LoginFinish(c) ==
    /\ pc[c] = "login_read"
    /\ pc' = [pc EXCEPT ![c] = "idle"]
    /\ local' = [local EXCEPT ![c] = NoLocal]
    /\ UNCHANGED resultados_questionario
    /\ UNCHANGED <<now, recuperacao_senha, redencoes>>
    /\ LET cand == local[c].cand
           id == cand.id_candidato
           novas_tentativas == OrZero(cand.tentativas_login) + 1
       IN
       IF Bloqueado(cand.bloqueado_ate, now) THEN
           /\ last' = Step(c, "login", "bloqueada",
                           MinutosRestantes(cand.bloqueado_ate, now))
           /\ UNCHANGED <<candidato, session, csrfSeq, falhas>>
       ELSE IF verificar_senha(local[c].senha, cand.senha) THEN
           /\ csrfSeq < MaxCsrf
           /\ candidato' = [candidato EXCEPT ![id] = ResetarTentativas(@)]
           /\ session' = [session EXCEPT ![c] = NovaSessao(@, id, now, csrfSeq)]
           /\ csrfSeq' = csrfSeq + 1
           /\ falhas' = [falhas EXCEPT ![id] = 0]
           /\ last' = Step(c, "login", "sucesso", OrZero(cand.tentativas_login))
       ELSE
           /\ novas_tentativas <= MaxTentativas
           /\ IF LimiteAtingido(novas_tentativas) THEN
                  /\ candidato' = [candidato EXCEPT
                                     ![id].tentativas_login = novas_tentativas,
                                     ![id].bloqueado_ate = now + Seconds(LOCKOUT_MINUTES)]
                  /\ last' = Step(c, "login", "bloqueio", NULL)
              ELSE
                  /\ candidato' = [candidato EXCEPT
                                     ![id].tentativas_login = novas_tentativas]
                  /\ last' = Step(c, "login", "senha_incorreta", novas_tentativas)
           /\ falhas' = [falhas EXCEPT ![id] = @ + 1]
           /\ UNCHANGED <<session, csrfSeq>>

(* login(), "except Exception": get_connection(), an execute() or the      *)
(* commit raises; nothing was committed                                    *)
LoginErro(c) ==
    /\ UNCHANGED resultados_questionario
    /\ UNCHANGED <<now, candidato, recuperacao_senha, falhas, redencoes>>
    /\ last' = Step(c, "login", "erro_interno", NULL)
    /\ \/ /\ CanStart(c)
          /\ SessionAtStart(c).usuario_id = NULL
          /\ csrfSeq' = SeqAfterRequestStart(c)
          /\ session' = [session EXCEPT ![c] = save_session(SessionAtStart(c), now)]
          /\ UNCHANGED <<pc, local>>
       \/ /\ pc[c] = "login_read"
          /\ ~Bloqueado(local[c].cand.bloqueado_ate, now)
          /\ pc' = [pc EXCEPT ![c] = "idle"]
          /\ local' = [local EXCEPT ![c] = NoLocal]
          /\ UNCHANGED <<session, csrfSeq>>

---------------------------------------------------------------------------
(* /logout *)

(* session.clear() *)
session_clear_OnlyFlag(s) == [s EXCEPT !.logged_in = FALSE]

session_clear(s) == EmptySession

Logout(c) ==
    /\ CanStart(c)
    /\ csrfSeq' = SeqAfterRequestStart(c)
    /\ session' = [session EXCEPT ![c] =
                     save_session(session_clear(SessionAtStart(c)), now)]
    /\ last' = Step(c, "logout", "redirect_login", NULL)
    /\ UNCHANGED resultados_questionario
    /\ UNCHANGED <<now, candidato, recuperacao_senha, pc, local, falhas, redencoes>>

---------------------------------------------------------------------------
(* /recuperar-senha *)

(* The rows "SELECT id_candidato FROM candidato WHERE email_candidato = %s" matches *)
EmailRows_None(email) == {}

EmailRows(email) == {i \in 1..Len(candidato) : candidato[i].email = email}

(* gerar_token_recuperacao: a value never produced before *)
gerar_token_recuperacao == Len(recuperacao_senha) + 1

(* The message recuperar_senha() flashes after its SELECT *)
MensagemRecuperacao_Reveals(usuario) ==
    IF usuario THEN "se_o_email_existir" ELSE "email_nao_cadastrado"

MensagemRecuperacao(usuario) ==
    IF usuario THEN "se_o_email_existir" ELSE "se_o_email_existir"

RecuperarSenha(c, method, email_in) ==
    /\ CanStart(c)
    /\ csrfSeq' = SeqAfterRequestStart(c)
    /\ session' = [session EXCEPT ![c] = save_session(SessionAtStart(c), now)]
    /\ UNCHANGED resultados_questionario
    /\ UNCHANGED <<now, candidato, pc, local, falhas>>
    /\ LET email == sanitizar_input(email_in) IN
       IF method = "GET" THEN
           /\ last' = Step(c, "recuperar_senha", "form", NULL)
           /\ UNCHANGED <<recuperacao_senha, redencoes>>
       ELSE IF ~validar_email(email) THEN
           /\ last' = Step(c, "recuperar_senha", "email_invalido", email)
           /\ UNCHANGED <<recuperacao_senha, redencoes>>
       ELSE IF EmailRows(email) # {} THEN
           \E i \in EmailRows(email) :
               /\ Len(recuperacao_senha) < MaxTokens
               /\ recuperacao_senha' = Append(recuperacao_senha,
                      [id_candidato |-> i, token |-> gerar_token_recuperacao,
                       data_expiracao |-> now + Seconds(TOKEN_MINUTES), usado |-> FALSE])
               /\ redencoes' = Append(redencoes, 0)
               /\ last' = Step(c, "recuperar_senha", MensagemRecuperacao(TRUE), email)
       ELSE
           /\ last' = Step(c, "recuperar_senha", MensagemRecuperacao(FALSE), email)
           /\ UNCHANGED <<recuperacao_senha, redencoes>>

(* recuperar_senha(), "except Exception": get_connection(), an execute()   *)
(* or the commit raises; nothing was committed                             *)
RecuperarErro(c, email_in) ==
    /\ CanStart(c)
    /\ validar_email(sanitizar_input(email_in))
    /\ csrfSeq' = SeqAfterRequestStart(c)
    /\ session' = [session EXCEPT ![c] = save_session(SessionAtStart(c), now)]
    /\ last' = Step(c, "recuperar_senha", "erro_interno", sanitizar_input(email_in))
    /\ UNCHANGED resultados_questionario
    /\ UNCHANGED <<now, candidato, recuperacao_senha, pc, local, falhas, redencoes>>

---------------------------------------------------------------------------
(* /resetar-senha/<token> *)

(* The rows the SELECT of resetar_senha() matches *)
TokenRows_IgnoreUsado(token, t) ==
    {k \in 1..Len(recuperacao_senha) :
        /\ recuperacao_senha[k].token = token
        /\ recuperacao_senha[k].data_expiracao > t}

TokenRows_AtExpiry(token, t) ==
    {k \in 1..Len(recuperacao_senha) :
        /\ recuperacao_senha[k].token = token
        /\ recuperacao_senha[k].data_expiracao >= t
        /\ recuperacao_senha[k].usado = FALSE}

TokenRows(token, t) ==
    {k \in 1..Len(recuperacao_senha) :
        /\ recuperacao_senha[k].token = token
        /\ recuperacao_senha[k].data_expiracao > t
        /\ recuperacao_senha[k].usado = FALSE}

(* resetar_senha(), from the start to cursor.fetchone() and the GET form *)
ResetSelect(c, method, token, senha, confirmar_senha) ==
    /\ CanStart(c)
    /\ csrfSeq' = SeqAfterRequestStart(c)
    /\ session' = [session EXCEPT ![c] = save_session(SessionAtStart(c), now)]
    /\ UNCHANGED resultados_questionario
    /\ UNCHANGED <<now, candidato, recuperacao_senha, falhas, redencoes>>
    /\ IF TokenRows(token, now) = {} THEN
           /\ last' = Step(c, "resetar_senha", "invalido_ou_expirado", token)
           /\ UNCHANGED <<pc, local>>
       ELSE IF method = "GET" THEN
           /\ last' = Step(c, "resetar_senha", "form", token)
           /\ UNCHANGED <<pc, local>>
       ELSE
           \E k \in TokenRows(token, now) :
               /\ pc' = [pc EXCEPT ![c] = "reset_read"]
               /\ local' = [local EXCEPT ![c] =
                              [NoLocal EXCEPT !.senha = senha,
                                              !.confirmar_senha = confirmar_senha,
                                              !.token = token,
                                              !.id_candidato = recuperacao_senha[k].id_candidato,
                                              !.lido_em = now]]
               /\ last' = Step(c, "resetar_senha", "select", token)

(* "UPDATE candidato SET senha = %s WHERE id_candidato = %s" *)
UpdateSenha_Unlock(id, senha_hash) ==
    [candidato EXCEPT ![id].senha = senha_hash, ![id].tentativas_login = 0,
                      ![id].bloqueado_ate = NULL]

UpdateSenha(id, senha_hash) == [candidato EXCEPT ![id].senha = senha_hash]

(* "UPDATE recuperacao_senha SET usado = TRUE WHERE token = %s" *)
MarcarUsado(token) ==
    [k \in 1..Len(recuperacao_senha) |->
        IF recuperacao_senha[k].token = token
        THEN [recuperacao_senha[k] EXCEPT !.usado = TRUE]
        ELSE recuperacao_senha[k]]

(* history: one more password change visible for the rows of the token *)
Redimido(token) ==
    [k \in 1..Len(redencoes) |->
        IF recuperacao_senha[k].token = token THEN redencoes[k] + 1 ELSE redencoes[k]]

(* The statements of resetar_senha() after the SELECT that reach the store *)
ResetStatements == {"update_candidato", "update_recuperacao_senha", "commit"}

(* resetar_senha(), the POST branch after the SELECT *)
ResetFinish(c) ==
    /\ pc[c] = "reset_read"
    /\ pc' = [pc EXCEPT ![c] = "idle"]
    /\ local' = [local EXCEPT ![c] = NoLocal]
    /\ UNCHANGED resultados_questionario
    /\ UNCHANGED <<now, session, csrfSeq, falhas>>
    /\ LET senha == local[c].senha
           token == local[c].token
           id == local[c].id_candidato
       IN
       IF senha # local[c].confirmar_senha THEN
           /\ last' = Step(c, "resetar_senha", "nao_coincidem", token)
           /\ UNCHANGED <<candidato, recuperacao_senha, redencoes>>
       ELSE IF ~validar_senha_forte(senha)[1] THEN
           /\ last' = Step(c, "resetar_senha", "senha_fraca", token)
           /\ UNCHANGED <<candidato, recuperacao_senha, redencoes>>
       ELSE
           \E salt \in Salts :
               /\ candidato' = Visible(candidato,
                                       UpdateSenha(id, hash_senha(senha, salt)), TRUE)
               /\ recuperacao_senha' = Visible(recuperacao_senha, MarcarUsado(token), TRUE)
               /\ redencoes' = Redimido(token)
               /\ last' = Step(c, "resetar_senha", "sucesso", token)

(* resetar_senha(), "except Exception": get_connection(), an execute() or  *)
(* the commit raises; the connection is dropped with nothing committed     *)
ResetErro(c, token) ==
    /\ UNCHANGED resultados_questionario
    /\ UNCHANGED <<now, falhas>>
    /\ \/ /\ CanStart(c)
          /\ csrfSeq' = SeqAfterRequestStart(c)
          /\ session' = [session EXCEPT ![c] = save_session(SessionAtStart(c), now)]
          /\ last' = [Step(c, "resetar_senha", "erro_interno", token)
                        EXCEPT !.at = "get_connection"]
          /\ UNCHANGED <<candidato, recuperacao_senha, redencoes, pc, local>>
       \/ /\ pc[c] = "reset_read"
          /\ token = local[c].token
          /\ local[c].senha = local[c].confirmar_senha
          /\ validar_senha_forte(local[c].senha)[1]
          /\ pc' = [pc EXCEPT ![c] = "idle"]
          /\ local' = [local EXCEPT ![c] = NoLocal]
          /\ \E stmt \in ResetStatements, salt \in Salts :
                LET senha_written == stmt # "update_candidato"
                    usado_written == stmt = "commit"
                IN
                /\ candidato' = Visible(candidato,
                        IF senha_written
                        THEN UpdateSenha(local[c].id_candidato,
                                         hash_senha(local[c].senha, salt))
                        ELSE candidato, FALSE)
                /\ recuperacao_senha' = Visible(recuperacao_senha,
                        IF usado_written THEN MarcarUsado(token)
                        ELSE recuperacao_senha, FALSE)
                /\ redencoes' = IF Visible(FALSE, senha_written, FALSE)
                                THEN Redimido(token) ELSE redencoes
                /\ last' = [Step(c, "resetar_senha", "erro_interno", token)
                              EXCEPT !.at = stmt]
          /\ UNCHANGED <<session, csrfSeq>>

---------------------------------------------------------------------------
(* The gate and the handlers behind it *)

(* login_required: what the decorator decides, and the session it leaves *)
login_required_NoCsrf(s, t, method, csrf_token) ==
    IF s.usuario_id = NULL THEN
        [result |-> "gate_absent", session |-> s]
    ELSE IF s.login_time # NULL /\ t - s.login_time > Seconds(SESSION_MINUTES) THEN
        [result |-> "gate_expired", session |-> session_clear(s)]
    ELSE
        [result |-> "allow", session |-> s]

login_required_AtLifetime(s, t, method, csrf_token) ==
    IF s.usuario_id = NULL THEN
        [result |-> "gate_absent", session |-> s]
    ELSE IF s.login_time # NULL /\ t - s.login_time >= Seconds(SESSION_MINUTES) THEN
        [result |-> "gate_expired", session |-> session_clear(s)]
    ELSE IF method = "POST"
            /\ (csrf_token = NULL \/ s.csrf_token = NULL \/ csrf_token # s.csrf_token) THEN
        [result |-> "gate_csrf", session |-> s]
    ELSE
        [result |-> "allow", session |-> s]

login_required(s, t, method, csrf_token) ==
    IF s.usuario_id = NULL THEN
        [result |-> "gate_absent", session |-> s]
    ELSE IF s.login_time # NULL /\ t - s.login_time > Seconds(SESSION_MINUTES) THEN
        [result |-> "gate_expired", session |-> session_clear(s)]
    ELSE IF method = "POST"
            /\ (csrf_token = NULL \/ s.csrf_token = NULL \/ csrf_token # s.csrf_token) THEN
        [result |-> "gate_csrf", session |-> s]
    ELSE
        [result |-> "allow", session |-> s]

(* The csrf_token form fields a client may send: none, a value never       *)
(* issued, or any value issued so far                                      *)
CsrfInputs == {NULL} \cup (0..MaxCsrf)

(* GET /area (as /questionario and /informacoes): a page behind the gate *)
Area(c) ==
    /\ CanStart(c)
    /\ csrfSeq' = SeqAfterRequestStart(c)
    /\ UNCHANGED resultados_questionario
    /\ UNCHANGED <<now, candidato, recuperacao_senha, pc, local, falhas, redencoes>>
    /\ LET g == login_required(SessionAtStart(c), now, "GET", NULL) IN
       /\ session' = [session EXCEPT ![c] = save_session(g.session, now)]
       /\ last' = Step(c, "area", IF g.result = "allow" THEN "pagina" ELSE g.result, NULL)

(* excluir_usuario: int(id_candidato) == session.get('usuario_id') *)
ProprioUsuario_Never(id_candidato, s) == FALSE

ProprioUsuario(id_candidato, s) == id_candidato = s.usuario_id

(* POST /excluir_usuario *)
ExcluirUsuario(c, csrf_token, id_candidato) ==
    /\ CanStart(c)
    /\ csrfSeq' = SeqAfterRequestStart(c)
    /\ csrf_token \in {NULL} \cup (0..csrfSeq')
    /\ UNCHANGED resultados_questionario
    /\ UNCHANGED <<now, recuperacao_senha, pc, local, falhas, redencoes>>
    /\ LET g == login_required(SessionAtStart(c), now, "POST", csrf_token) IN
       /\ session' = [session EXCEPT ![c] = save_session(g.session, now)]
       /\ IF g.result # "allow" THEN
              /\ last' = Step(c, "excluir_usuario", g.result, csrf_token)
              /\ UNCHANGED candidato
          ELSE IF csrf_token # g.session.csrf_token THEN
              /\ last' = Step(c, "excluir_usuario", "token_invalido", csrf_token)
              /\ UNCHANGED candidato
          ELSE IF id_candidato \notin 1..Len(candidato) THEN
              /\ last' = Step(c, "excluir_usuario", "nao_encontrado", csrf_token)
              /\ UNCHANGED candidato
          ELSE IF ProprioUsuario(id_candidato, g.session) THEN
              /\ last' = Step(c, "excluir_usuario", "proprio_usuario", csrf_token)
              /\ UNCHANGED candidato
          ELSE
              /\ candidato' = [candidato EXCEPT ![id_candidato].ativo = FALSE]
              /\ last' = Step(c, "excluir_usuario", "desativado", csrf_token)

(* The form fields email_candidato and senha of POST /atualizar_usuario *)
AtualizarEmails == {EmailA, EmailC, "invalido"}
AtualizarSenhas == {SenhaVazia, SenhaB, SenhaFraca}

(* The two UPDATEs of atualizar_usuario(): the second leaves senha alone *)
UpdateUsuario(id, email, senha_hash) ==
    [candidato EXCEPT ![id].email = email, ![id].senha = senha_hash]

UpdateUsuarioSemSenha(id, email) == [candidato EXCEPT ![id].email = email]

(* POST /atualizar_usuario *)
AtualizarUsuario(c, csrf_token, id_candidato, email_in, senha) ==
    /\ CanStart(c)
    /\ csrfSeq' = SeqAfterRequestStart(c)
    /\ csrf_token \in {NULL} \cup (0..csrfSeq')
    /\ UNCHANGED resultados_questionario
    /\ UNCHANGED <<now, recuperacao_senha, pc, local, falhas, redencoes>>
    /\ LET g == login_required(SessionAtStart(c), now, "POST", csrf_token)
           email_candidato == sanitizar_input(email_in)
       IN
       /\ session' = [session EXCEPT ![c] = save_session(g.session, now)]
       /\ IF g.result # "allow" THEN
              /\ last' = Step(c, "atualizar_usuario", g.result, csrf_token)
              /\ UNCHANGED candidato
          ELSE IF csrf_token # g.session.csrf_token THEN
              /\ last' = Step(c, "atualizar_usuario", "token_invalido", csrf_token)
              /\ UNCHANGED candidato
          ELSE IF ~validar_email(email_candidato) THEN
              /\ last' = Step(c, "atualizar_usuario", "email_invalido", csrf_token)
              /\ UNCHANGED candidato
          ELSE IF id_candidato \notin 1..Len(candidato) THEN
              /\ last' = Step(c, "atualizar_usuario", "nao_encontrado", csrf_token)
              /\ UNCHANGED candidato
          ELSE IF senha # SenhaVazia THEN
              IF ~validar_senha_forte(senha)[1] THEN
                  /\ last' = Step(c, "atualizar_usuario", "senha_fraca", csrf_token)
                  /\ UNCHANGED candidato
              ELSE
                  \E salt \in Salts :
                      /\ candidato' = Visible(candidato,
                             UpdateUsuario(id_candidato, email_candidato,
                                           hash_senha(senha, salt)), TRUE)
                      /\ last' = Step(c, "atualizar_usuario", "atualizado", csrf_token)
          ELSE
              /\ candidato' = Visible(candidato,
                     UpdateUsuarioSemSenha(id_candidato, email_candidato), TRUE)
              /\ last' = Step(c, "atualizar_usuario", "atualizado", csrf_token)

(* atualizar_usuario(), "except Exception": get_connection(), an execute() *)
(* or the commit raises behind the gate; rollback                          *)
AtualizarErro(c, id_candidato, email_in) ==
    /\ CanStart(c)
    /\ csrfSeq' = SeqAfterRequestStart(c)
    /\ UNCHANGED resultados_questionario
    /\ UNCHANGED <<now, recuperacao_senha, pc, local, falhas, redencoes>>
    /\ LET s == SessionAtStart(c)
           g == login_required(s, now, "POST", s.csrf_token)
       IN
       /\ g.result = "allow"
       /\ id_candidato \in 1..Len(candidato)
       /\ validar_email(sanitizar_input(email_in))
       /\ session' = [session EXCEPT ![c] = save_session(g.session, now)]
       /\ candidato' = Visible(candidato,
              UpdateUsuarioSemSenha(id_candidato, sanitizar_input(email_in)), FALSE)
       /\ last' = [Step(c, "atualizar_usuario", "erro", s.csrf_token)
                     EXCEPT !.at = "commit"]

(* The bodies of a POST to /api/salvar-resultado: a JSON object with the   *)
(* fields the handler requires, a JSON object without one of them, or form *)
(* fields                                                                  *)
Bodies == {"json_completo", "json_incompleto", "form"}

(* request.form.get('csrf_token'): a body that is not form-encoded has no  *)
(* form field                                                              *)
FormCsrfToken_AnyBody(body, csrf_token) == csrf_token

FormCsrfToken(body, csrf_token) == IF body = "form" THEN csrf_token ELSE NULL

(* POST /api/salvar-resultado.  request.json of a body that is not JSON    *)
(* raises or is None, and either way the handler ends in its except clause *)
SalvarResultado(c, body, csrf_token) ==
    /\ CanStart(c)
    /\ csrfSeq' = SeqAfterRequestStart(c)
    /\ csrf_token \in {NULL} \cup (0..csrfSeq')
    /\ UNCHANGED <<now, candidato, recuperacao_senha, pc, local, falhas, redencoes>>
    /\ LET token_form == FormCsrfToken(body, csrf_token)
           g == login_required(SessionAtStart(c), now, "POST", token_form)
           usuario_id == g.session.usuario_id
           resposta ==
               IF g.result # "allow" THEN g.result
               ELSE IF body = "form" THEN "erro"
               ELSE IF usuario_id = NULL \/ usuario_id = 0 THEN "nao_autenticado"
               ELSE IF body = "json_incompleto" THEN "campo_obrigatorio"
               ELSE "salvo"
       IN
       /\ session' = [session EXCEPT ![c] = save_session(g.session, now)]
       /\ last' = [Step(c, "salvar_resultado", resposta, token_form)
                     EXCEPT !.body = body]
       /\ IF resposta = "salvo" THEN
              /\ Len(resultados_questionario) < MaxResultados
              /\ resultados_questionario' =
                     Visible(resultados_questionario,
                             Append(resultados_questionario,
                                    [id_candidato |-> usuario_id]), TRUE)
          ELSE UNCHANGED resultados_questionario

(* GET / *)
Index(c) ==
    /\ CanStart(c)
    /\ csrfSeq' = SeqAfterRequestStart(c)
    /\ session' = [session EXCEPT ![c] = save_session(SessionAtStart(c), now)]
    /\ last' = Step(c, "index",
                    IF SessionAtStart(c).usuario_id # NULL THEN "logado" ELSE "publico",
                    NULL)
    /\ UNCHANGED resultados_questionario
    /\ UNCHANGED <<now, candidato, recuperacao_senha, pc, local, falhas, redencoes>>

(* GET /api/verificar-sessao *)
VerificarSessao(c) ==
    /\ CanStart(c)
    /\ csrfSeq' = SeqAfterRequestStart(c)
    /\ session' = [session EXCEPT ![c] = save_session(SessionAtStart(c), now)]
    /\ last' = Step(c, "verificar_sessao",
                    IF SessionAtStart(c).usuario_id # NULL /\ SessionAtStart(c).logged_in
                    THEN "logged_in_true" ELSE "logged_in_false",
                    NULL)
    /\ UNCHANGED resultados_questionario
    /\ UNCHANGED <<now, candidato, recuperacao_senha, pc, local, falhas, redencoes>>

---------------------------------------------------------------------------
(* /cadastro *)

(* The row "INSERT INTO candidato (...)" adds: the columns it does not     *)
(* name take their defaults                                                *)
NovoCandidato(email, senha_hash) ==
    [email |-> email, senha |-> senha_hash,
     tentativas_login |-> 0, bloqueado_ate |-> NULL, ativo |-> TRUE]

(* cadastro(), from the start to the SELECT that looks for the email *)
CadastroSelect(c, method, csrf_token, email_in, data_in, senha, confirmar_senha) ==
    /\ CanStart(c)
    /\ csrfSeq' = SeqAfterRequestStart(c)
    /\ csrf_token \in {NULL} \cup (0..csrfSeq')
    /\ session' = [session EXCEPT ![c] = save_session(SessionAtStart(c), now)]
    /\ UNCHANGED resultados_questionario
    /\ UNCHANGED <<now, candidato, recuperacao_senha, falhas, redencoes>>
    /\ LET email == sanitizar_input(email_in)
           data_nascimento == converter_data_br_para_iso(sanitizar_input(data_in))
           resposta ==
               IF SessionAtStart(c).usuario_id # NULL THEN "redirect_index"
               ELSE IF method = "GET" THEN "form"
               ELSE IF csrf_token # SessionAtStart(c).csrf_token THEN "token_invalido"
               ELSE IF senha # confirmar_senha THEN "nao_coincidem"
               ELSE IF ~validar_senha_forte(senha)[1] THEN "senha_fraca"
               ELSE IF ~validar_email_seguro(email)[1] THEN "email_invalido"
               ELSE IF ~validate_date(data_nascimento) THEN "data_invalida"
               ELSE IF calcular_idade(data_nascimento) < MIN_AGE THEN "idade_insuficiente"
               ELSE IF EmailRows(email) # {} THEN "email_ja_cadastrado"
               ELSE "select"
       IN
       /\ last' = Step(c, "cadastro", resposta, IF method = "GET" THEN NULL ELSE email)
       /\ IF resposta = "select" THEN
              /\ pc' = [pc EXCEPT ![c] = "cadastro_read"]
              /\ local' = [local EXCEPT ![c] =
                             [NoLocal EXCEPT !.email = email, !.senha = senha]]
          ELSE UNCHANGED <<pc, local>>

(* cadastro(), from the INSERT to the response *)
CadastroFinish(c) ==
    /\ pc[c] = "cadastro_read"
    /\ Len(candidato) < MaxContas
    /\ csrfSeq < MaxCsrf
    /\ pc' = [pc EXCEPT ![c] = "idle"]
    /\ local' = [local EXCEPT ![c] = NoLocal]
    /\ \E salt \in Salts :
          candidato' = Visible(candidato,
              Append(candidato, NovoCandidato(local[c].email,
                                              hash_senha(local[c].senha, salt))), TRUE)
    /\ falhas' = Append(falhas, 0)
    /\ session' = [session EXCEPT ![c] =
                     NovaSessao(@, Len(candidato) + 1, now, csrfSeq)]
    /\ csrfSeq' = csrfSeq + 1
    /\ last' = Step(c, "cadastro", "sucesso", local[c].email)
    /\ UNCHANGED resultados_questionario
    /\ UNCHANGED <<now, recuperacao_senha, redencoes>>

(* cadastro(), "except psycopg2.Error" and "except Exception": rollback *)
CadastroErro(c, email_in) ==
    /\ UNCHANGED resultados_questionario
    /\ UNCHANGED <<now, recuperacao_senha, redencoes>>
    /\ \/ /\ CanStart(c)
          /\ SessionAtStart(c).usuario_id = NULL
          /\ csrfSeq' = SeqAfterRequestStart(c)
          /\ session' = [session EXCEPT ![c] = save_session(SessionAtStart(c), now)]
          /\ last' = [Step(c, "cadastro", "erro", sanitizar_input(email_in))
                        EXCEPT !.at = "get_connection"]
          /\ UNCHANGED <<candidato, falhas, pc, local>>
       \/ /\ pc[c] = "cadastro_read"
          /\ email_in = local[c].email
          /\ Len(candidato) < MaxContas
          /\ pc' = [pc EXCEPT ![c] = "idle"]
          /\ local' = [local EXCEPT ![c] = NoLocal]
          /\ \E stmt \in {"insert", "commit"}, salt \in Salts :
                LET inserted == stmt = "commit" IN
                /\ candidato' = Visible(candidato,
                        IF inserted
                        THEN Append(candidato,
                                    NovoCandidato(local[c].email,
                                                  hash_senha(local[c].senha, salt)))
                        ELSE candidato, FALSE)
                /\ falhas' = IF Visible(FALSE, inserted, FALSE)
                             THEN Append(falhas, 0) ELSE falhas
                /\ last' = [Step(c, "cadastro", "erro", local[c].email)
                              EXCEPT !.at = stmt]
          /\ UNCHANGED <<session, csrfSeq>>

---------------------------------------------------------------------------
(* Login and lockout *)

LoginStep(clients) ==
    \/ \E c \in clients, method \in {"GET", "POST"}, e \in LoginEmails, s \in LoginSenhas :
           LoginSelect(c, method, e, s)
    \/ \E c \in clients : LoginFinish(c)
    \/ \E c \in clients : LoginErro(c)

NextLogin ==
    \/ Tick(MaxTicksLogin)
    \/ TickSeconds(MaxTicksLogin)
    \/ LoginStep(OneClient)
    \/ \E c \in OneClient : Logout(c)

SpecLogin == InitLogin /\ [][NextLogin]_vars

NextLoginConc ==
    \/ Tick(MaxTicksLoginConc)
    \/ LoginStep(Clients)

SpecLoginConc == Init /\ [][NextLoginConc]_vars

---------------------------------------------------------------------------
(* Password reset *)

ResetStep(clients) ==
    \/ \E c \in clients, method \in {"GET", "POST"}, e \in RecuperarEmails :
           RecuperarSenha(c, method, e)
    \/ \E c \in clients, e \in RecuperarEmails : RecuperarErro(c, e)
    \/ \E c \in clients, method \in {"GET", "POST"}, token \in 0..MaxTokens,
          senha \in ResetSenhas, confirmar_senha \in ResetSenhas :
           ResetSelect(c, method, token, senha, confirmar_senha)
    \/ \E c \in clients : ResetFinish(c)
    \/ \E c \in clients, token \in 0..MaxTokens : ResetErro(c, token)

NextReset ==
    \/ Tick(MaxTicksReset)
    \/ ResetStep(OneClient)

SpecReset == Init /\ [][NextReset]_vars

NextResetConc ==
    \/ Tick(MaxTicksReset)
    \/ ResetStep(Clients)

SpecResetConc == Init /\ [][NextResetConc]_vars

---------------------------------------------------------------------------
(* The session gate *)

NextSessao ==
    \/ Tick(MaxTicksSessao)
    \/ \E c \in OneClient, method \in {"GET", "POST"} :
           LoginSelect(c, method, EmailA, SenhaA)
    \/ \E c \in OneClient : LoginFinish(c)
    \/ \E c \in OneClient : Logout(c)
    \/ \E c \in OneClient : Area(c)
    \/ \E c \in OneClient : Index(c)
    \/ \E c \in OneClient : VerificarSessao(c)
    \/ \E c \in OneClient, csrf_token \in CsrfInputs,
          id \in 1..(Len(candidato) + 1) :
           ExcluirUsuario(c, csrf_token, id)

SpecSessao == Init2 /\ [][NextSessao]_vars

---------------------------------------------------------------------------
(* Registration *)

NextCadastro ==
    \/ Tick(MaxTicksLogin)
    \/ \E c \in OneClient, method \in {"GET", "POST"}, csrf_token \in CsrfInputs,
          e \in CadastroEmails, d \in DatasNascimento,
          senha \in ResetSenhas, confirmar_senha \in ResetSenhas :
           CadastroSelect(c, method, csrf_token, e, d, senha, confirmar_senha)
    \/ \E c \in OneClient : CadastroFinish(c)
    \/ \E c \in OneClient, e \in CadastroEmails : CadastroErro(c, e)
    \/ \E c \in OneClient : Logout(c)

SpecCadastro == Init /\ [][NextCadastro]_vars

---------------------------------------------------------------------------
(* Accounts: login, registration, deactivation and the result API, one     *)
(* client                                                                  *)

(* The email and senha fields of the logins: the password of each account, *)
(* and for one account a wrong password                                    *)
ContaLogins == {<<EmailA, SenhaA>>, <<EmailB, SenhaB>>, <<EmailB, SenhaA>>}

NextConta ==
    \/ \E c \in OneClient, l \in ContaLogins : LoginSelect(c, "POST", l[1], l[2])
    \/ \E c \in OneClient : LoginFinish(c)
    \/ \E c \in OneClient : Logout(c)
    \/ \E c \in OneClient, csrf_token \in CsrfInputs, e \in {EmailC, EmailUpper} :
           CadastroSelect(c, "POST", csrf_token, e, "15/03/2000", SenhaB, SenhaB)
    \/ \E c \in OneClient : CadastroFinish(c)
    \/ \E c \in OneClient, csrf_token \in CsrfInputs,
          id \in 1..(Len(candidato) + 1) :
           ExcluirUsuario(c, csrf_token, id)
    \/ \E c \in OneClient, body \in Bodies, csrf_token \in CsrfInputs :
           SalvarResultado(c, body, csrf_token)

SpecConta == Init2 /\ [][NextConta]_vars

---------------------------------------------------------------------------
(* Every handler that writes to the store, one client, with the requests   *)
(* that name a record naming record 1, which starts locked                 *)

NextRegistro ==
    \/ \E c \in OneClient, conta \in {ContaA, ContaB} :
           LoginSelect(c, "POST", conta.email, conta.senha.digest[2])
    \/ \E c \in OneClient : LoginFinish(c)
    \/ \E c \in OneClient : Logout(c)
    \/ \E c \in OneClient : RecuperarSenha(c, "POST", EmailA)
    \/ \E c \in OneClient, token \in 1..MaxTokens :
           ResetSelect(c, "POST", token, SenhaB, SenhaB)
    \/ \E c \in OneClient : ResetFinish(c)
    \/ \E c \in OneClient, csrf_token \in CsrfInputs :
           CadastroSelect(c, "POST", csrf_token, EmailC, "15/03/2000", SenhaB, SenhaB)
    \/ \E c \in OneClient : CadastroFinish(c)
    \/ \E c \in OneClient, csrf_token \in CsrfInputs :
           ExcluirUsuario(c, csrf_token, 1)
    \/ \E c \in OneClient, csrf_token \in CsrfInputs, s \in {SenhaVazia, SenhaB} :
           AtualizarUsuario(c, csrf_token, 1, EmailC, s)
    \/ \E c \in OneClient : AtualizarErro(c, 1, EmailC)
    \/ \E c \in OneClient, body \in Bodies, csrf_token \in CsrfInputs :
           SalvarResultado(c, body, csrf_token)

SpecRegistro == InitConta /\ [][NextRegistro]_vars

---------------------------------------------------------------------------
(* validar_senha_forte, called on a password *)

InitSenha ==
    /\ now = 0
    /\ candidato = <<ContaA>>
    /\ recuperacao_senha = << >>
    /\ resultados_questionario = << >>
    /\ session = [c \in Clients |-> EmptySession]
    /\ csrfSeq = 0
    /\ last = Step("c1", "none", "none", NULL)
    /\ falhas = <<0>>
    /\ redencoes = << >>
    /\ \E senha \in SenhasTeste :
          /\ pc = [c \in Clients |-> IF c \in OneClient THEN "validar_senha_forte"
                                                       ELSE "idle"]
          /\ local = [c \in Clients |->
                        IF c \in OneClient THEN [NoLocal EXCEPT !.senha = senha]
                                           ELSE NoLocal]

ValidarSenhaForte(c) ==
    /\ pc[c] = "validar_senha_forte"
    /\ pc' = [pc EXCEPT ![c] = "idle"]
    /\ local' = [local EXCEPT ![c].senha_valida = validar_senha_forte(local[c].senha)]
    /\ last' = Step(c, "validar_senha_forte", "return", NULL)
    /\ UNCHANGED <<now, candidato, recuperacao_senha, resultados_questionario,
                   session, csrfSeq, falhas, redencoes>>

NextSenha == \E c \in OneClient : ValidarSenhaForte(c)

SpecSenha == InitSenha /\ [][NextSenha]_vars

---------------------------------------------------------------------------
(* hash_senha called twice on a password, then verificar_senha called on   *)
(* the first hash with that password and with another, and on a stored     *)
(* value that is no hash                                                   *)

InitHash ==
    /\ now = 0
    /\ candidato = <<ContaA>>
    /\ recuperacao_senha = << >>
    /\ resultados_questionario = << >>
    /\ session = [c \in Clients |-> EmptySession]
    /\ csrfSeq = 0
    /\ last = Step("c1", "none", "none", NULL)
    /\ falhas = <<0>>
    /\ redencoes = << >>
    /\ \E p \in HashSenhas, q \in HashSenhas :
          /\ pc = [c \in Clients |-> IF c \in OneClient THEN "hash_senha" ELSE "idle"]
          /\ local = [c \in Clients |->
                        IF c \in OneClient
                        THEN [NoLocal EXCEPT !.senha = p, !.confirmar_senha = q]
                        ELSE NoLocal]

(* bcrypt.gensalt(): 16 random bytes, a value not produced before *)
gensalt(produzidos) == Salts \ produzidos

HashSenha(c) ==
    /\ pc[c] = "hash_senha"
    /\ UNCHANGED <<now, candidato, recuperacao_senha, resultados_questionario,
                   session, csrfSeq, falhas, redencoes>>
    /\ \/ /\ Len(local[c].senha) > BCRYPT_MAX_BYTES
          /\ pc' = [pc EXCEPT ![c] = "idle"]
          /\ last' = Step(c, "hash_senha", "ValueError", NULL)
          /\ UNCHANGED local
       \/ \E salt \in gensalt({local[c].hashes[i].salt : i \in DOMAIN local[c].hashes}) :
             /\ local' = [local EXCEPT ![c].hashes =
                                         Append(@, hash_senha(local[c].senha, salt))]
             /\ pc' = [pc EXCEPT ![c] = IF Len(local[c].hashes) = 0 THEN "hash_senha"
                                                                   ELSE "verificar_senha"]
             /\ last' = Step(c, "hash_senha", "return", NULL)

(* verificar_senha on a password longer than 72 bytes: the comparison of   *)
(* the cut password, or False from the except clause                       *)
VerificarResultados(senha, hash_armazenado) ==
    {verificar_senha(senha, hash_armazenado)}
        \cup (IF Len(senha) > BCRYPT_MAX_BYTES THEN {FALSE} ELSE {})

VerificarSenha(c) ==
    /\ pc[c] = "verificar_senha"
    /\ pc' = [pc EXCEPT ![c] = "idle"]
    /\ UNCHANGED <<now, candidato, recuperacao_senha, resultados_questionario,
                   session, csrfSeq, falhas, redencoes>>
    /\ \E rp \in VerificarResultados(local[c].senha, local[c].hashes[1]),
          rq \in VerificarResultados(local[c].confirmar_senha, local[c].hashes[1]),
          rm \in VerificarResultados(local[c].senha, HashMalformado) :
             local' = [local EXCEPT ![c].confere = <<rp, rq, rm>>]
    /\ last' = Step(c, "verificar_senha", "return", NULL)

NextHash ==
    \/ \E c \in OneClient : HashSenha(c)
    \/ \E c \in OneClient : VerificarSenha(c)

SpecHash == InitHash /\ [][NextHash]_vars

---------------------------------------------------------------------------
(* Claims about login and lockout *)

C2_FiveFailuresLock ==
    /\ [](\A id \in 1..Len(candidato) :
            falhas[id] < 5 => candidato[id].bloqueado_ate = NULL)
    /\ [][\A id \in 1..Len(candidato) :
            (falhas[id] = 4 /\ falhas'[id] = 5) =>
                /\ candidato'[id].bloqueado_ate = now + 900
                /\ candidato'[id].bloqueado_ate > now']_vars
    /\ [][\A id \in 1..Len(candidato) :
            (candidato[id].bloqueado_ate # NULL /\ candidato[id].bloqueado_ate > now) =>
                /\ candidato'[id].bloqueado_ate = candidato[id].bloqueado_ate
                /\ candidato'[id].tentativas_login = candidato[id].tentativas_login]_vars

C2_Witness ==
    /\ falhas[1] = 5
    /\ candidato[1].tentativas_login = 5
    /\ candidato[1].bloqueado_ate = now + 900
    /\ last.op = "login" /\ last.outcome = "bloqueada"

(* C3: when the row a login attempt read is locked at the time of the      *)
(* check (bloqueado_ate set and in the future), the attempt ends as        *)
(* "conta bloqueada" whatever the password, and changes no session and no  *)
(* record.                                                                 *)
C3_LockedShortCircuits ==
    [][\A c \in Clients :
         (/\ pc[c] = "login_read"
          /\ pc'[c] = "idle"
          /\ local[c].cand.bloqueado_ate # NULL
          /\ local[c].cand.bloqueado_ate > now) =>
             /\ last'.c = c /\ last'.op = "login" /\ last'.outcome = "bloqueada"
             /\ session' = session
             /\ candidato' = candidato]_vars

C3_Witness ==
    \E c \in Clients :
        /\ last.c = c /\ last.op = "login" /\ last.outcome = "bloqueada"
        /\ candidato[1].bloqueado_ate > now
        /\ session[c].usuario_id = NULL

(* C4: under every interleaving, the counter of a record equals the number *)
(* of failed logins completed since its last success, and the record has a *)
(* lock once 5 of them have completed.                                     *)
C4_NoLostFailure ==
    \A id \in 1..Len(candidato) :
        /\ candidato[id].tentativas_login = falhas[id]
        /\ falhas[id] >= 5 => candidato[id].bloqueado_ate # NULL

---------------------------------------------------------------------------
(* Claims about password reset *)

TokenRow(token) ==
    CHOOSE k \in 1..Len(recuperacao_senha) : recuperacao_senha[k].token = token

(* C5: under every interleaving of redemption requests, at most one        *)
(* password change is committed per reset token.                           *)
C5_AtMostOneRedemption ==
    \A k \in 1..Len(redencoes) : redencoes[k] <= 1

(* C6: with requests one after another, a redemption whose token is        *)
(* unused and unexpired at its lookup and whose new password is strong and *)
(* confirmed commits the new password and marks the token used (or the    *)
(* store raises and nothing is committed); a request whose lookup ran for  *)
(* a token that is used gets the same outcome as one for an expired or     *)
(* unknown token and changes no record; so no token changes a password     *)
(* twice.                                                                  *)
C6_SecondRedemptionInvalid ==
    /\ [](\A k \in 1..Len(recuperacao_senha) :
            /\ redencoes[k] <= 1
            /\ recuperacao_senha[k].usado <=> redencoes[k] = 1)
    /\ [][\A c \in Clients :
            (/\ pc[c] = "reset_read"
             /\ pc'[c] = "idle"
             /\ local[c].senha = SenhaB
             /\ local[c].confirmar_senha = SenhaB) =>
                LET k == TokenRow(local[c].token)
                    id == local[c].id_candidato
                IN
                \/ /\ last' = Step(c, "resetar_senha", "sucesso", local[c].token)
                   /\ recuperacao_senha'[k].usado
                   /\ candidato'[id].senha.digest = <<candidato'[id].senha.salt, SenhaB>>
                   /\ redencoes'[k] = redencoes[k] + 1
                \/ /\ last'.c = c /\ last'.op = "resetar_senha"
                   /\ last'.outcome = "erro_interno" /\ last'.arg = local[c].token
                   /\ candidato' = candidato
                   /\ recuperacao_senha' = recuperacao_senha]_vars
    /\ [][(/\ now' = now
           /\ last'.op = "resetar_senha"
           /\ last'.outcome # "erro_interno"
           /\ pc[last'.c] = "idle"
           /\ \/ last'.arg \notin {recuperacao_senha[k].token : k \in 1..Len(recuperacao_senha)}
              \/ recuperacao_senha[TokenRow(last'.arg)].usado
              \/ recuperacao_senha[TokenRow(last'.arg)].data_expiracao <= now) =>
              /\ last'.outcome = "invalido_ou_expirado"
              /\ pc'[last'.c] = "idle"
              /\ candidato' = candidato
              /\ recuperacao_senha' = recuperacao_senha]_vars

C6_Witness ==
    /\ Len(recuperacao_senha) >= 1
    /\ recuperacao_senha[1].usado
    /\ recuperacao_senha[1].data_expiracao > now
    /\ redencoes[1] = 1
    /\ last = Step("c1", "resetar_senha", "invalido_ou_expirado", 1)

(* C7: a reset token is created with data_expiracao = now + 60 minutes and *)
(* unused; a password is changed only by a redemption whose lookup         *)
(* happened strictly before the token's data_expiracao; and the passing of *)
(* time alone changes no token row (expiry is decided at the lookup).      *)
C7_RedeemOnlyBeforeExpiry ==
    /\ [][Len(recuperacao_senha') > Len(recuperacao_senha) =>
            /\ Len(recuperacao_senha') = Len(recuperacao_senha) + 1
            /\ recuperacao_senha'[Len(recuperacao_senha')].data_expiracao = now + 3600
            /\ recuperacao_senha'[Len(recuperacao_senha')].usado = FALSE]_vars
    /\ [][(now' = now /\ last'.op = "resetar_senha") =>
            \A id \in 1..Len(candidato) :
                candidato'[id].senha # candidato[id].senha =>
                    LET c == last'.c IN
                    /\ pc[c] = "reset_read"
                    /\ local[c].id_candidato = id
                    /\ local[c].lido_em
                         < recuperacao_senha[TokenRow(local[c].token)].data_expiracao]_vars
    /\ [][\A c \in Clients :
            (pc[c] = "idle" /\ pc'[c] = "reset_read") =>
                /\ local'[c].lido_em = now
                /\ now < recuperacao_senha[TokenRow(local'[c].token)].data_expiracao]_vars
    /\ [][now' # now => recuperacao_senha' = recuperacao_senha]_vars

C7_Witness ==
    /\ Len(recuperacao_senha) >= 1
    /\ recuperacao_senha[1].usado = FALSE
    /\ recuperacao_senha[1].data_expiracao = now
    /\ redencoes[1] = 0
    /\ candidato[1].senha = ContaA.senha
    /\ last = Step("c1", "resetar_senha", "invalido_ou_expirado", 1)

---------------------------------------------------------------------------
(* Claims about the session gate *)

Protegidos == {"area", "excluir_usuario"}
Method(op) == IF op = "excluir_usuario" THEN "POST" ELSE "GET"
GateOutcomes == {"gate_absent", "gate_expired", "gate_csrf"}

(* C8: a request to a protected endpoint reaches the handler (any outcome  *)
(* other than a rejection by the gate) only if the session had a user id,  *)
(* now - login_time was at most 120 minutes and, for a POST, the request   *)
(* carried a csrf_token equal to the session's; a rejected request changes *)
(* no record.                                                              *)
C8_HandlerOnlyBehindGate ==
    [][(now' = now /\ last'.op \in Protegidos) =>
         LET s == session[last'.c] IN
         /\ last'.outcome \notin GateOutcomes =>
               /\ s.usuario_id # NULL
               /\ s.login_time # NULL
               /\ now - s.login_time <= 7200
               /\ Method(last'.op) = "POST" =>
                     /\ last'.arg # NULL
                     /\ last'.arg = s.csrf_token
         /\ last'.outcome \in GateOutcomes => candidato' = candidato]_vars

C8_Witness ==
    /\ last.op = "excluir_usuario"
    /\ last.outcome = "desativado"
    /\ last.arg = session["c1"].csrf_token
    /\ candidato[2].ativo = FALSE
    /\ now - session["c1"].login_time = 7200

(* C9: for a session read with a user id, the gate answers "expired" exactly *)
(* when now - login_time exceeds 120 minutes, never for a session without  *)
(* a user id, and on answering it the session is left with no key at all.  *)
C9_ExpiredIffPastLifetime ==
    [][(now' = now /\ last'.op \in Protegidos) =>
         LET s == open_session(session[last'.c], now) IN
         /\ s.usuario_id # NULL =>
               (last'.outcome = "gate_expired" <=> now - s.login_time > 7200)
         /\ s.usuario_id = NULL => last'.outcome # "gate_expired"
         /\ last'.outcome = "gate_expired" =>
               /\ session'[last'.c].usuario_id = NULL
               /\ session'[last'.c].login_time = NULL
               /\ session'[last'.c].csrf_token = NULL
               /\ session'[last'.c].logged_in = FALSE]_vars

C9_Witness ==
    /\ last = Step("c1", "area", "gate_expired", NULL)
    /\ session["c1"].usuario_id = NULL
    /\ session["c1"].csrf_token = NULL

(* C10: logout leaves the session with no key, whatever it held before     *)
(* (also when it held nothing); a request to a protected endpoint from a   *)
(* session without a user id is answered "absent", reaches no handler and  *)
(* attaches no user id; and a session gains a user id only by a successful *)
(* login or registration.                                                  *)
C10_LogoutClears ==
    /\ [][(now' = now /\ last'.op = "logout") =>
            /\ session'[last'.c].usuario_id = NULL
            /\ session'[last'.c].login_time = NULL
            /\ session'[last'.c].csrf_token = NULL
            /\ session'[last'.c].logged_in = FALSE
            /\ \A d \in Clients \ {last'.c} : session'[d] = session[d]
            /\ candidato' = candidato]_vars
    /\ [][(now' = now /\ last'.op \in Protegidos /\ session[last'.c].usuario_id = NULL) =>
            /\ last'.outcome = "gate_absent"
            /\ session'[last'.c].usuario_id = NULL
            /\ candidato' = candidato]_vars
    /\ [][\A c \in Clients :
            (session[c].usuario_id = NULL /\ session'[c].usuario_id # NULL) =>
                /\ last'.c = c
                /\ last'.op \in {"login", "cadastro"}
                /\ last'.outcome = "sucesso"]_vars

C10_Witness ==
    /\ last = Step("c1", "excluir_usuario", "gate_absent", 2)
    /\ session["c1"].usuario_id = NULL
    /\ csrfSeq = 3

(* C11: a POST to a protected endpoint from a session with a user id and   *)
(* within its lifetime, whose csrf_token field is missing or differs from  *)
(* the session's, reaches no handler, and when the request has been        *)
(* handled the session holds no user id.                                   *)
C11_CsrfMismatchDestroysSession ==
    [][(now' = now /\ last'.op \in Protegidos /\ last'.outcome = "gate_csrf") =>
         /\ candidato' = candidato
         /\ session'[last'.c].usuario_id = NULL]_vars

(* C12: a request is answered as coming from a logged-in user (the         *)
(* logged-in page of index(), logged_in true of /api/verificar-sessao, the *)
(* already-logged-in redirect of login() and cadastro()) only when the     *)
(* session it presents holds a user id and now - login_time is at most 120 *)
(* minutes.                                                                *)
C12_ExpiredNeverAuthenticated ==
    [][(/\ now' = now
        /\ \/ last'.op = "index" /\ last'.outcome = "logado"
           \/ last'.op = "verificar_sessao" /\ last'.outcome = "logged_in_true"
           \/ last'.op \in {"login", "cadastro"} /\ last'.outcome = "redirect_index") =>
         LET s == open_session(session[last'.c], now) IN
         /\ s.usuario_id # NULL
         /\ now - s.login_time <= 7200]_vars

(* C13: a login that succeeds (its snapshot not locked at the check) leaves *)
(* the record with tentativas_login = 0 and bloqueado_ate NULL, whatever    *)
(* counter it read, also 5 or more left by a lock that has elapsed.         *)
C13_SuccessResetsCounter ==
    [][\A c \in Clients :
         (/\ now' = now
          /\ pc[c] = "login_read"
          /\ last'.c = c /\ last'.op = "login" /\ last'.outcome = "sucesso") =>
             LET id == local[c].cand.id_candidato IN
             /\ ~(local[c].cand.bloqueado_ate # NULL /\ local[c].cand.bloqueado_ate > now)
             /\ candidato'[id].tentativas_login = 0
             /\ candidato'[id].bloqueado_ate = NULL]_vars

C13_Witness ==
    /\ last.op = "login" /\ last.outcome = "sucesso"
    /\ last.arg >= 5
    /\ candidato[1].tentativas_login = 0
    /\ candidato[1].bloqueado_ate = NULL

(* C14: an attempt refused because the account is locked reports a number  *)
(* of minutes that is greater than 0 and at most 15.                       *)
C14_RemainingMinutesPositive ==
    [][(now' = now /\ last'.op = "login" /\ last'.outcome = "bloqueada") =>
         /\ last'.arg > 0
         /\ last'.arg <= 15]_vars

(* C15: a POST to recuperar_senha with a well-formed email that reaches    *)
(* the store is answered with one and the same message and redirect        *)
(* whether or not a record has that email; one token row is added, for a   *)
(* record with that email, expiring 3600 seconds from now and unused, if   *)
(* and only if such a record exists, and nothing else is written.          *)
C15_ResetRequestSameResponse ==
    [][(/\ now' = now
        /\ last'.op = "recuperar_senha"
        /\ last'.outcome \notin {"form", "erro_interno"}
        /\ validar_email(last'.arg)) =>
         LET n == Len(recuperacao_senha) IN
         /\ last'.outcome = "se_o_email_existir"
         /\ candidato' = candidato
         /\ (\E i \in 1..Len(candidato) : candidato[i].email = last'.arg) =>
               /\ Len(recuperacao_senha') = n + 1
               /\ SubSeq(recuperacao_senha', 1, n) = recuperacao_senha
               /\ candidato[recuperacao_senha'[n + 1].id_candidato].email = last'.arg
               /\ recuperacao_senha'[n + 1].data_expiracao = now + 3600
               /\ recuperacao_senha'[n + 1].usado = FALSE
         /\ ~(\E i \in 1..Len(candidato) : candidato[i].email = last'.arg) =>
               recuperacao_senha' = recuperacao_senha]_vars

C15_Witness ==
    /\ last = Step("c1", "recuperar_senha", "se_o_email_existir", EmailC)
    /\ Len(recuperacao_senha) = 1
    /\ candidato[recuperacao_senha[1].id_candidato].email = EmailA

(* C16: login() has no response that only an email without a record gets:  *)
(* an attempt that finds no active record with the email is answered as an *)
(* attempt with a wrong password for a registered email is.                *)
C16_LoginDoesNotEnumerate ==
    [][(now' = now /\ last'.op = "login" /\ pc'[last'.c] = "idle"
        /\ last'.outcome \notin {"redirect_index", "form", "campos_vazios",
                                 "erro_interno", "sucesso", "bloqueada"}) =>
         last'.outcome \in {"senha_incorreta", "bloqueio"}]_vars

(* C17: a request to a protected endpoint that the gate rejects for lack   *)
(* of a valid session gets one and the same response (redirect and notice) *)
(* whether the session had no user id or had one past its lifetime.        *)
C17_AbsentExpiredSameResponse ==
    [][(now' = now /\ last'.op \in Protegidos
        /\ last'.outcome \in {"gate_absent", "gate_expired"}) =>
         last'.outcome = "gate_absent"]_vars

(* C18: a login attempt goes on to the lock and password checks only with  *)
(* an active record of the submitted email; it is answered "email nao      *)
(* cadastrado" only when no active record has that email, and such an      *)
(* attempt changes no record and no token, attaches no user id to any      *)
(* session and leaves no request in flight.                                *)
C18_NotFoundMutatesNothing ==
    /\ [][\A c \in Clients :
            (pc[c] = "idle" /\ pc'[c] = "login_read") =>
                \E i \in 1..Len(candidato) :
                    candidato[i].email = local'[c].email /\ candidato[i].ativo]_vars
    /\ [][(now' = now /\ last'.op = "login" /\ last'.outcome = "nao_cadastrado") =>
            /\ ~\E i \in 1..Len(candidato) :
                   candidato[i].email = last'.arg /\ candidato[i].ativo
            /\ candidato' = candidato
            /\ recuperacao_senha' = recuperacao_senha
            /\ falhas' = falhas
            /\ pc' = pc
            /\ \A c \in Clients :
                  /\ session'[c].usuario_id = session[c].usuario_id
                  /\ session'[c].login_time = session[c].login_time
                  /\ session'[c].logged_in = session[c].logged_in]_vars

C18_Witness ==
    /\ last = Step("c1", "login", "nao_cadastrado", EmailB)
    /\ candidato[2].email = EmailB
    /\ ~candidato[2].ativo
    /\ candidato[1].tentativas_login > 0

(* C19: in every state a reset token is marked used exactly when a         *)
(* password change made with it is visible: the two UPDATEs of             *)
(* resetar_senha() become visible together or not at all, also when an     *)
(* exception ends the handler between them.                                *)
C19_RedeemAtomic ==
    \A k \in 1..Len(recuperacao_senha) :
        recuperacao_senha[k].usado <=> redencoes[k] >= 1

C19_Witness ==
    /\ last.op = "resetar_senha"
    /\ last.outcome = "erro_interno"
    /\ last.at = "update_recuperacao_senha"
    /\ last.arg = 1
    /\ recuperacao_senha[1].usado = FALSE
    /\ candidato[1].senha = ContaA.senha

(* C20: a step of cadastro() that does not end in success leaves every     *)
(* record and every session's user id as they were; the step that ends in  *)
(* success adds exactly one record, active and unlocked, with the          *)
(* submitted email, which no record had, and the hash of the submitted     *)
(* password, and attaches the new record's id to the session of the        *)
(* request, with login_time = now.                                         *)
C20_RegisterOnlyOnSuccess ==
    /\ [][(now' = now /\ last'.op = "cadastro" /\ last'.outcome # "sucesso") =>
            /\ candidato' = candidato
            /\ \A c \in Clients :
                  /\ session'[c].usuario_id = session[c].usuario_id
                  /\ session'[c].logged_in = session[c].logged_in]_vars
    /\ [][(now' = now /\ last'.op = "cadastro" /\ last'.outcome = "sucesso") =>
            LET c == last'.c
                n == Len(candidato)
            IN
            /\ pc[c] = "cadastro_read"
            /\ Len(candidato') = n + 1
            /\ SubSeq(candidato', 1, n) = candidato
            /\ candidato'[n + 1].email = local[c].email
            /\ ~\E i \in 1..n : candidato[i].email = local[c].email
            /\ candidato'[n + 1].senha.digest
                  = <<candidato'[n + 1].senha.salt, local[c].senha>>
            /\ candidato'[n + 1].ativo
            /\ candidato'[n + 1].bloqueado_ate = NULL
            /\ session[c].usuario_id = NULL
            /\ session'[c].usuario_id = n + 1
            /\ session'[c].login_time = now]_vars

C20_Witness ==
    /\ last.op = "cadastro"
    /\ last.outcome = "email_ja_cadastrado"
    /\ last.arg = EmailC
    /\ Len(candidato) = 2
    /\ candidato[2].email = EmailC
    /\ session["c1"].usuario_id = NULL

---------------------------------------------------------------------------
(* Claims about the credential records *)

(* str.lower() of an email *)
EmailLower(email) == IF email = EmailUpper THEN EmailA ELSE email

(* C21: in every state no two records have emails that are equal when      *)
(* compared without regard to case.                                        *)
C21_EmailUniqueIgnoringCase ==
    \A i, j \in 1..Len(candidato) :
        i # j => EmailLower(candidato[i].email) # EmailLower(candidato[j].email)

(* C22: excluir_usuario() only sets ativo = FALSE on one record and        *)
(* changes nothing else; no step removes a record or makes a deactivated   *)
(* record active again; and a login goes on to the lock and password       *)
(* checks, and attaches a user id, only for a record that is active: an    *)
(* attempt for the email of a deactivated record, with any password, is    *)
(* answered "email nao cadastrado" and leaves the session without user id. *)
C22_DeactivatedExcludedFromLogin ==
    /\ [][/\ Len(candidato') >= Len(candidato)
          /\ \A i \in 1..Len(candidato) : ~candidato[i].ativo => ~candidato'[i].ativo]_vars
    /\ [][(now' = now /\ last'.op = "excluir_usuario") =>
            IF last'.outcome = "desativado"
            THEN \E k \in 1..Len(candidato) :
                     candidato' = [candidato EXCEPT ![k].ativo = FALSE]
            ELSE candidato' = candidato]_vars
    /\ [][\A c \in Clients :
            (pc[c] = "idle" /\ pc'[c] = "login_read") =>
                /\ candidato[local'[c].cand.id_candidato].ativo
                /\ candidato[local'[c].cand.id_candidato].email = local'[c].email]_vars
    /\ [][(now' = now /\ last'.op = "login") =>
            /\ last'.outcome = "sucesso" =>
                  candidato[session'[last'.c].usuario_id].ativo
            /\ last'.outcome = "nao_cadastrado" =>
                  /\ session'[last'.c].usuario_id = NULL
                  /\ candidato' = candidato]_vars

C22_Witness ==
    /\ last = Step("c1", "login", "nao_cadastrado", EmailB)
    /\ candidato[2].email = EmailB
    /\ ~candidato[2].ativo
    /\ candidato[2].senha = ContaB.senha
    /\ candidato[1].ativo
    /\ session["c1"].usuario_id = NULL

(* C23: a step of any handler other than login() (cadastro, recuperar_senha, *)
(* resetar_senha, atualizar_usuario, excluir_usuario, logout,               *)
(* salvar_resultado) leaves tentativas_login and bloqueado_ate of every     *)
(* record as they were: a lock outlives a password reset.                   *)
C23_LockFieldsOnlyByLogin ==
    [][(now' = now /\ last'.op # "login") =>
         \A i \in 1..Len(candidato) :
             /\ candidato'[i].tentativas_login = candidato[i].tentativas_login
             /\ candidato'[i].bloqueado_ate = candidato[i].bloqueado_ate]_vars

C23_Witness ==
    /\ last = Step("c1", "resetar_senha", "sucesso", 1)
    /\ candidato[1].senha # ContaA.senha
    /\ candidato[1].email = EmailC
    /\ ~candidato[1].ativo
    /\ candidato[1].tentativas_login = 5
    /\ candidato[1].bloqueado_ate = 900
    /\ Len(candidato) = 3

---------------------------------------------------------------------------
(* Claims about the CSRF token and the result API *)

(* C24: the step of login() or cadastro() that attaches a user id sets the *)
(* session's csrf_token to a value never issued before (the values issued  *)
(* are 1..csrfSeq); a step of login() or cadastro() that does not succeed  *)
(* leaves a csrf_token the session holds as it is; while a session keeps   *)
(* its user id its csrf_token does not change; and a POST passes the gate  *)
(* only with the csrf_token of the session: never with a value issued      *)
(* before the authentication.                                              *)
C24_CsrfRotatedOnAuthentication ==
    /\ [][(now' = now /\ last'.op \in {"login", "cadastro"}) =>
            LET c == last'.c
                s == open_session(session[c], now)
            IN
            IF last'.outcome = "sucesso"
            THEN /\ session'[c].usuario_id # NULL
                 /\ session'[c].csrf_token \notin 0..csrfSeq
                 /\ session'[c].csrf_token # session[c].csrf_token
                 /\ session'[c].csrf_token = csrfSeq'
            ELSE s.csrf_token # NULL => session'[c].csrf_token = s.csrf_token]_vars
    /\ [][\A c \in Clients :
            (session[c].usuario_id # NULL /\ session'[c].usuario_id # NULL) =>
                session'[c].csrf_token = session[c].csrf_token]_vars
    /\ [][(/\ now' = now
           /\ last'.op \in {"excluir_usuario", "atualizar_usuario", "salvar_resultado"}
           /\ last'.outcome \notin GateOutcomes) =>
            /\ last'.arg = session[last'.c].csrf_token
            /\ last'.arg = session'[last'.c].csrf_token
            /\ session[last'.c].usuario_id # NULL]_vars

C24_Witness ==
    /\ last = Step("c1", "excluir_usuario", "gate_csrf", 3)
    /\ session["c1"].usuario_id = 2
    /\ session["c1"].csrf_token = 4
    /\ Len(candidato) = 3
    /\ candidato[2].tentativas_login = 0

---------------------------------------------------------------------------
(* Claims about the password functions *)

(* C25: validar_senha_forte answers (FALSE, the reason of the first rule   *)
(* that fails) with the rules taken in the order length >= 8, uppercase,   *)
(* lowercase, digit, symbol, and (TRUE, ...) exactly when all five hold;   *)
(* "abc12345" is refused for want of an uppercase letter.                  *)
C25_FirstFailingRule ==
    \A c \in OneClient :
        (last.op = "validar_senha_forte" /\ last.c = c) =>
            LET senha == local[c].senha
                r == local[c].senha_valida
                regras == <<Len(senha) >= 8,
                            \E i \in DOMAIN senha : senha[i] \in Upper,
                            \E i \in DOMAIN senha : senha[i] \in Lower,
                            \E i \in DOMAIN senha : senha[i] \in Digit,
                            \E i \in DOMAIN senha : senha[i] \in Special>>
                razoes == <<"minimo 8 caracteres", "letra maiuscula",
                            "letra minuscula", "numero", "caractere especial">>
                falham == {i \in 1..5 : ~regras[i]}
            IN
            /\ r[1] <=> falham = {}
            /\ falham # {} =>
                  \E i \in falham :
                      /\ \A j \in falham : i <= j
                      /\ r[2] = razoes[i]
            /\ senha = SenhaFraca => r = <<FALSE, "letra maiuscula">>

C25_Witness ==
    /\ last.op = "validar_senha_forte"
    /\ local["c1"].senha = <<"1", "!", "_", "_", "_", "_", "_", "_">>
    /\ local["c1"].senha_valida = <<FALSE, "letra maiuscula">>

(* C26: for every password p, hash_senha(p) gives a hash, verificar_senha  *)
(* of p and that hash is TRUE, verificar_senha of a password q other than  *)
(* p and that hash is FALSE, a second hash_senha(p) gives another hash,    *)
(* and verificar_senha of a stored value that is no hash is FALSE.         *)
C26_HashVerify ==
    \A c \in OneClient :
        /\ (last.op = "hash_senha" /\ last.c = c) => last.outcome = "return"
        /\ (last.op = "verificar_senha" /\ last.c = c) =>
              LET p == local[c].senha
                  q == local[c].confirmar_senha
              IN
              /\ local[c].confere[1] = TRUE
              /\ q # p => local[c].confere[2] = FALSE
              /\ local[c].hashes[1] # local[c].hashes[2]
              /\ local[c].confere[3] = FALSE

(* C30: a POST to /api/salvar-resultado whose body is JSON carries no form  *)
(* field csrf_token: from a session with a user id and within its lifetime *)
(* the gate rejects it as a CSRF mismatch, from any session the gate       *)
(* rejects it, and the handler inserts no result.                          *)
C30_JsonPostRejectedByGate ==
    [][(now' = now /\ last'.op = "salvar_resultado" /\ last'.body # "form") =>
         LET s == open_session(session[last'.c], now) IN
         /\ last'.arg = NULL
         /\ last'.outcome \in GateOutcomes
         /\ (s.usuario_id # NULL /\ now - s.login_time <= 7200) =>
               last'.outcome = "gate_csrf"
         /\ resultados_questionario' = resultados_questionario]_vars

C30_Witness ==
    /\ last.op = "salvar_resultado"
    /\ last.body = "json_completo"
    /\ last.outcome = "gate_csrf"
    /\ session["c1"].usuario_id = 1
    /\ session["c1"].login_time = now
    /\ resultados_questionario = << >>

(* C31: a request to /excluir_usuario never changes the ativo flag of the   *)
(* record of the user who owns the requesting session; a request whose      *)
(* id_candidato is that user's id is rejected and changes no record; and a  *)
(* request whose id_candidato names no record changes no record.            *)
C31_OwnAndMissingNeverDeactivated ==
    [][\A c \in Clients :
         (now' = now /\ last'.op = "excluir_usuario" /\ last'.c = c) =>
           LET s == SessionAtStart(c) IN
           /\ s.usuario_id # NULL =>
                 candidato'[s.usuario_id].ativo = candidato[s.usuario_id].ativo
           /\ (s.usuario_id # NULL /\ ExcluirUsuario(c, last'.arg, s.usuario_id)) =>
                 /\ last'.outcome # "desativado"
                 /\ candidato' = candidato
           /\ ExcluirUsuario(c, last'.arg, Len(candidato) + 1) =>
                 /\ last'.outcome # "desativado"
                 /\ candidato' = candidato]_vars

C31_Witness ==
    /\ last.op = "excluir_usuario"
    /\ last.outcome = "proprio_usuario"
    /\ session["c1"].usuario_id = 2
    /\ candidato[2].ativo
    /\ ~candidato[1].ativo

---------------------------------------------------------------------------
(* Claims about the counter and the lock *)

(* C27: in every state, under every interleaving of logins on one record,  *)
(* bloqueado_ate is set only if tentativas_login is at least 5, and        *)
(* tentativas_login = 0 only if bloqueado_ate is NULL.                     *)
C27_CounterLockConsistent ==
    \A id \in 1..Len(candidato) :
        /\ candidato[id].bloqueado_ate # NULL => candidato[id].tentativas_login >= 5
        /\ candidato[id].tentativas_login = 0 => candidato[id].bloqueado_ate = NULL

(* C28: with requests one after another, the passing of time changes no    *)
(* record; a record whose lock has elapsed still has a counter of at least *)
(* 5; a failed attempt on such a record adds 1 to the counter and sets     *)
(* bloqueado_ate to the time of the attempt + 900 seconds; and a counter   *)
(* becomes 0 only by a successful login.                                   *)
C28_CounterKeptAfterLockElapses ==
    /\ [][now' # now => candidato' = candidato]_vars
    /\ [](\A id \in 1..Len(candidato) :
            (candidato[id].bloqueado_ate # NULL /\ candidato[id].bloqueado_ate <= now) =>
                candidato[id].tentativas_login >= 5)
    /\ [][\A c \in Clients :
            (/\ pc[c] = "login_read"
             /\ pc'[c] = "idle"
             /\ local[c].cand.bloqueado_ate # NULL
             /\ local[c].cand.bloqueado_ate <= now
             /\ last'.outcome \notin {"sucesso", "erro_interno"}) =>
                LET id == local[c].cand.id_candidato IN
                /\ last'.outcome = "bloqueio"
                /\ candidato'[id].tentativas_login = candidato[id].tentativas_login + 1
                /\ candidato'[id].tentativas_login > 5
                /\ candidato'[id].bloqueado_ate = now + 900]_vars
    /\ [][\A id \in 1..Len(candidato) :
            (candidato[id].tentativas_login > 0 /\ candidato'[id].tentativas_login = 0) =>
                /\ last'.op = "login"
                /\ last'.outcome = "sucesso"
                /\ session'[last'.c].usuario_id = id]_vars

C28_Witness ==
    /\ last.op = "login" /\ last.outcome = "bloqueio"
    /\ candidato[1].tentativas_login = 6
    /\ candidato[1].bloqueado_ate = now + 900
    /\ now >= 900

(* C29: with requests one after another, a login attempt for the email of  *)
(* an active record goes on to the lock check whatever lock the record     *)
(* has; and when the lock it read has elapsed (bloqueado_ate set and not   *)
(* after now) and the password is the record's, the attempt, unless the    *)
(* store raises, succeeds: the session gets the record's id and the record *)
(* is left with tentativas_login = 0 and bloqueado_ate NULL.               *)
C29_LockoutNotPermanent ==
    /\ [][(now' = now /\ last'.op = "login" /\ last'.outcome = "nao_cadastrado") =>
            ~\E i \in 1..Len(candidato) :
                candidato[i].email = last'.arg /\ candidato[i].ativo]_vars
    /\ [][\A c \in Clients :
            (/\ pc[c] = "login_read"
             /\ pc'[c] = "idle"
             /\ local[c].cand.bloqueado_ate # NULL
             /\ local[c].cand.bloqueado_ate <= now
             /\ local[c].cand.senha.digest = <<local[c].cand.senha.salt, local[c].senha>>
             /\ last'.outcome # "erro_interno") =>
                LET id == local[c].cand.id_candidato IN
                /\ last'.c = c /\ last'.op = "login" /\ last'.outcome = "sucesso"
                /\ session'[c].usuario_id = id
                /\ session'[c].login_time = now
                /\ candidato'[id].tentativas_login = 0
                /\ candidato'[id].bloqueado_ate = NULL]_vars

C29_Witness ==
    /\ last.op = "login" /\ last.outcome = "sucesso"
    /\ last.arg = 6
    /\ now = 1800
    /\ session["c1"].usuario_id = 1
    /\ session["c1"].login_time = now
    /\ candidato[1].tentativas_login = 0
    /\ candidato[1].bloqueado_ate = NULL

=============================================================================
